---- MODULE Spec2Model ----
(***************************************************************************)
(* A model of the blackscholes crate's "Let's be rational" layer:          *)
(*   - lets_be_rational::black (the in-the-money -> out-of-the-money       *)
(*     mirroring around normalised_black),                                 *)
(*   - lets_be_rational::implied_volatility_from_a_transformed_rational_   *)
(*     guess and the FloatMaxIterations budget,                            *)
(*   - Inputs::calc_rational_iv (undiscounting, the solver call and the    *)
(*     NaN / infinite / negative check on its result).                     *)
(*                                                                         *)
(* Floating-point numbers are modelled by a small binary format with Prec  *)
(* mantissa bits and exponents 0..EMax (so the finite values are integers  *)
(* m * 2^e), round-to-nearest-even, overflow to +/-infinity, and NaN.      *)
(* The numerical kernels that live in modules of the crate that are not    *)
(* part of the source tree at hand (black.rs, so_rational.rs) are modelled *)
(* from the specification, with their numerical results left open.         *)
(***************************************************************************)
EXTENDS Integers, Sequences, FiniteSets, TLC

(* ------------------------------ bounds -------------------------------- *)

\* mantissa bits of the modelled floating-point format
Prec == 2
\* fractional bits: the finite values are the integers n, standing for n / 2^Frac
Frac == 1
\* largest exponent of the quantum of a finite value (0..EMax)
EMax == 2
\* recursion depth of black up to which the model follows the calls
MaxDepth == 3

(* ------------------------- floating point ----------------------------- *)

RECURSIVE Pow2(_)
Pow2(n) == IF n <= 0 THEN 1 ELSE 2 * Pow2(n - 1)

\* the integer that stands for 1.0
One == Pow2(Frac)

NaN == [c |-> "nan", v |-> 0]
PInf == [c |-> "inf", v |-> 0]
NInf == [c |-> "ninf", v |-> 0]
Fin(n) == [c |-> "fin", v |-> n]
\* Option::None of an Option<T> field or of a result slot
None == [c |-> "none", v |-> 0]

Zero == Fin(0)
FOne == Fin(One)

AbsInt(n) == IF n < 0 THEN -n ELSE n

MaxFinite == (Pow2(Prec) - 1) * Pow2(EMax)

Representable(n) ==
    \E e \in 0..EMax : AbsInt(n) % Pow2(e) = 0 /\ AbsInt(n) \div Pow2(e) < Pow2(Prec)

FiniteVals == {Fin(n) : n \in {m \in -MaxFinite..MaxFinite : Representable(m)}}
FloatVals == FiniteVals \cup {NaN, PInf, NInf}

is_nan(a) == a.c = "nan"
is_infinite(a) == a.c \in {"inf", "ninf"}
is_finite(a) == a.c = "fin"

\* the exponent at which the integer magnitude a is held (its quantum is 2^e)
RECURSIVE ExpOf(_, _)
ExpOf(a, e) == IF a < Pow2(Prec + e) THEN e ELSE ExpOf(a, e + 1)

\* unit in the last place of a finite value
Ulp(a) == Pow2(ExpOf(AbsInt(a.v), 0))

\* round the exact result num / den (den > 0) to the format: nearest, ties to
\* even, overflow to the infinity of its sign
RoundRat(num, den) ==
    LET a == AbsInt(num)
        d == den * Pow2(ExpOf(a \div den, 0))
        lo == a \div d
        rem == a - lo * d
        m == IF 2 * rem < d THEN lo
             ELSE IF 2 * rem > d THEN lo + 1
             ELSE IF lo % 2 = 0 THEN lo ELSE lo + 1
        r == m * (d \div den)
    IN  IF r > MaxFinite THEN (IF num < 0 THEN NInf ELSE PInf)
        ELSE Fin(IF num < 0 THEN -r ELSE r)

Round(x) == RoundRat(x, 1)

FNeg(a) ==
    CASE a.c = "nan" -> NaN
      [] a.c = "inf" -> NInf
      [] a.c = "ninf" -> PInf
      [] OTHER -> Fin(-a.v)

FAdd(a, b) ==
    IF is_nan(a) \/ is_nan(b) THEN NaN
    ELSE IF is_infinite(a) /\ is_infinite(b) THEN (IF a = b THEN a ELSE NaN)
    ELSE IF is_infinite(a) THEN a
    ELSE IF is_infinite(b) THEN b
    ELSE Round(a.v + b.v)

FSub(a, b) == FAdd(a, FNeg(b))

\* -1, 0, 1 for a non-NaN value
Sign(a) ==
    CASE a.c = "inf" -> 1
      [] a.c = "ninf" -> -1
      [] OTHER -> IF a.v > 0 THEN 1 ELSE IF a.v < 0 THEN -1 ELSE 0

FMul(a, b) ==
    IF is_nan(a) \/ is_nan(b) THEN NaN
    ELSE IF is_infinite(a) \/ is_infinite(b)
         THEN (IF Sign(a) * Sign(b) = 0 THEN NaN
               ELSE IF Sign(a) * Sign(b) > 0 THEN PInf ELSE NInf)
    ELSE RoundRat(a.v * b.v, One)

\* a / b of IEEE 754 (the format has a single zero, taken as +0)
FDiv(a, b) ==
    IF is_nan(a) \/ is_nan(b) THEN NaN
    ELSE IF is_infinite(a)
         THEN (IF is_infinite(b) THEN NaN
               ELSE IF Sign(a) * (IF Sign(b) < 0 THEN -1 ELSE 1) > 0 THEN PInf ELSE NInf)
    ELSE IF is_infinite(b) THEN Zero
    ELSE IF b.v = 0
         THEN (IF a.v = 0 THEN NaN ELSE IF a.v > 0 THEN PInf ELSE NInf)
    ELSE RoundRat(a.v * One * (IF b.v < 0 THEN -1 ELSE 1), AbsInt(b.v))

\* a < b of IEEE 754: false as soon as one side is NaN
FLt(a, b) ==
    /\ ~is_nan(a)
    /\ ~is_nan(b)
    /\ a # b
    /\ \/ a.c = "ninf"
       \/ b.c = "inf"
       \/ is_finite(a) /\ is_finite(b) /\ a.v < b.v

FGt(a, b) == FLt(b, a)
FLe(a, b) == ~is_nan(a) /\ ~is_nan(b) /\ ~FLt(b, a)
FGe(a, b) == FLe(b, a)

\* f64::max / f32::max: when one argument is NaN the other one is returned
FMax(a, b) ==
    IF is_nan(a) THEN b
    ELSE IF is_nan(b) THEN a
    ELSE IF FLt(a, b) THEN b ELSE a

FAbs(a) ==
    CASE a.c = "nan" -> NaN
      [] a.c \in {"inf", "ninf"} -> PInf
      [] OTHER -> Fin(AbsInt(a.v))

RECURSIVE ISqrt(_, _)
ISqrt(n, r) == IF (r + 1) * (r + 1) > n THEN r ELSE ISqrt(n, r + 1)

\* sqrt, rounded to the format: sqrt(v / One) * One = sqrt(v * One)
FSqrt(a) ==
    CASE a.c = "nan" -> NaN
      [] a.c = "ninf" -> NaN
      [] a.c = "inf" -> PInf
      [] OTHER -> IF a.v < 0 THEN NaN
                  ELSE LET n == a.v * One
                           r == ISqrt(n, 0)
                       IN  Round(IF n - r * r > r THEN r + 1 ELSE r)

\* exp, rounded to the format, at the arguments the model hands to it (0 and
\* +/-1.0): e^0 = 1, e^1 = 2.718, e^-1 = 0.368; beyond them it is the value at
\* the nearer of these arguments
FExp(a) ==
    CASE a.c = "nan" -> NaN
      [] a.c = "inf" -> PInf
      [] a.c = "ninf" -> Zero
      [] OTHER -> IF 2 * a.v >= One THEN RoundRat(2718 * One, 1000)
                  ELSE IF 2 * a.v <= -One THEN RoundRat(368 * One, 1000)
                  ELSE FOne

(* --------------------------- option type ------------------------------ *)

OptionTypes == {"Call", "Put"}

\* OptionType -> f64: the sign theta of the option
ThetaOf(option_type) == IF option_type = "Call" THEN FOne ELSE FNeg(FOne)

\* -option_type
NegOptionType(option_type) == IF option_type = "Call" THEN "Put" ELSE "Call"

(* ------------------------------ black --------------------------------- *)

VARIABLES
    bargs,      \* the arguments of the black evaluations under way: forward,
                \* strike, sigma, maturity, and the value the numerical kernel
                \* of normalised_black yields for them
    bpc,        \* "rest", "body" (a call of black is at its first line) or
                \* "return" (a call of black has its return value)
    top,        \* the option type the caller asked black for
    cur,        \* the option type of the call of black being evaluated
    stack,      \* the intrinsic values held by the calls of black that wait
                \* for their mirrored call
    bret,       \* the value the last finished call of black returned
    prices      \* what the caller has got so far: option type -> price

VARIABLES
    inp,        \* the Inputs<T> calc_rational_iv is called on (with its width T),
                \* or NoInputs
    origin,     \* who called the solver: "none", "core" (a direct call of
                \* implied_volatility_from_a_transformed_rational_guess::<T>) or
                \* "inputs" (calc_rational_iv)
    sv,         \* the solve call: its arguments, the width it is instantiated
                \* with, its iteration limit, stage, iteration count and
                \* current volatility estimate
    ivres       \* what the caller got back: tag "none", "Ok" or "Err"

VARIABLES
    mem,        \* the Inputs<T> values in memory: the objects the callers hold
                \* and the clone each running calc_iv works on
    thr,        \* per thread: the operation on an Inputs it runs, where it
                \* is in it, its local variables and its result
    kern,       \* the values the numerical kernel of calc_price and calc_vega
                \* has yielded so far: Inputs -> values
    gk,         \* the call of calc_all_greeks under way: its receiver, the
                \* HashMap it fills, and its result
    mono,       \* two evaluations of black that differ in sigma only
    first       \* an earlier solve the caller remembers: its arguments,
                \* how it ended and what it returned

bvars == <<bargs, bpc, top, cur, stack, bret, prices>>
ivvars == <<inp, origin, sv, ivres>>
xvars == <<mem, thr, kern, gk, mono, first>>

\* lets_be_rational::DENORMALISATION_CUTOFF
DENORMALISATION_CUTOFF == 0

\* a variant of Intrinsic that forgets the sign of the option: always
\* forward - strike
IntrinsicUnsigned(forward_price, strike_price, option_type) ==
    FAbs(FMax(FSub(forward_price, strike_price), Zero))

\* the intrinsic value black computes first
Intrinsic(forward_price, strike_price, option_type) ==
    LET q == ThetaOf(option_type)
    IN  FAbs(FMax(IF FLt(q, Zero) THEN FSub(strike_price, forward_price)
                  ELSE FSub(forward_price, strike_price),
                  Zero))

\* a variant of InTheMoney with >= in place of >
InTheMoneyOrAt(forward_price, strike_price, option_type) ==
    FGe(FMul(ThetaOf(option_type), FSub(forward_price, strike_price)), Zero)

\* the test of black's "Map in-the-money to out-of-the-money"
InTheMoney(forward_price, strike_price, option_type) ==
    FGt(FMul(ThetaOf(option_type), FSub(forward_price, strike_price)), Zero)

\* sigma * time_to_maturity.sqrt()
TotalDeviation(sigma, time_to_maturity) == FMul(sigma, FSqrt(time_to_maturity))

\* black::normalised_black as black calls it, on the out-of-the-money side.
\* At a total deviation not above the cutoff it returns the normalised
\* intrinsic value: 0 when the log-moneyness ln(forward / strike) is a number
\* (forward and strike finite and positive), and 0 or NaN when it is not.
\* Everywhere else it returns what the numerical kernel yields, kernel.
normalised_black(forward_price, strike_price, s, option_type, kernel) ==
    IF FLe(s, Fin(DENORMALISATION_CUTOFF))
    THEN IF /\ FGt(forward_price, Zero) /\ is_finite(forward_price)
            /\ FGt(strike_price, Zero) /\ is_finite(strike_price)
         THEN Zero
         ELSE (IF is_nan(kernel) THEN NaN ELSE Zero)
    ELSE kernel

\* a variant of OtmValue without the max against the intrinsic value
OtmValueUnclamped(forward_price, strike_price, sigma, time_to_maturity, option_type, kernel) ==
    FMul(FMul(FSqrt(forward_price), FSqrt(strike_price)),
         normalised_black(forward_price, strike_price,
                          TotalDeviation(sigma, time_to_maturity),
                          option_type, kernel))

\* the last expression of black: the out-of-the-money value
OtmValue(forward_price, strike_price, sigma, time_to_maturity, option_type, kernel) ==
    FMax(Intrinsic(forward_price, strike_price, option_type),
         FMul(FMul(FSqrt(forward_price), FSqrt(strike_price)),
              normalised_black(forward_price, strike_price,
                               TotalDeviation(sigma, time_to_maturity),
                               option_type, kernel)))

\* a variant of MirrorReturn that returns the mirrored price alone
MirrorReturnDropsIntrinsic(intrinsic, mirrored) == mirrored

\* a variant of MirrorReturn with the wrong sign of the mirrored price
MirrorReturnSubtracts(intrinsic, mirrored) == FSub(intrinsic, mirrored)

\* the return of the in-the-money branch: intrinsic + black(.., -option_type)
MirrorReturn(intrinsic, mirrored) == FAdd(intrinsic, mirrored)

\* lets_be_rational::black as a function of its arguments and of the value
\* the kernel yields for the one out-of-the-money evaluation it makes
black(forward_price, strike_price, sigma, time_to_maturity, option_type, kernel) ==
    IF InTheMoney(forward_price, strike_price, option_type)
    THEN MirrorReturn(Intrinsic(forward_price, strike_price, option_type),
                      OtmValue(forward_price, strike_price, sigma, time_to_maturity,
                               NegOptionType(option_type), kernel))
    ELSE OtmValue(forward_price, strike_price, sigma, time_to_maturity,
                  option_type, kernel)

NoArgs == [F |-> None, K |-> None, sigma |-> None, T |-> None, kernel |-> None]
NoPrices == [o \in OptionTypes |-> None]

\* the arguments a caller hands to black
BlackIn == {a \in FiniteVals : a.v >= -One} \cup {NaN, PInf}
SigmaIn == {Zero, FOne, NaN}
MaturityIn == {Zero, FOne}
\* the values the numerical kernel may yield
KernelOut == {a \in FiniteVals : a.v = -One \/ (a.v >= 0 /\ a.v <= One)} \cup {NaN, PInf, NInf}

BlackInit ==
    /\ bargs = NoArgs
    /\ bpc = "rest"
    /\ top = "Call"
    /\ cur = "Call"
    /\ stack = <<>>
    /\ bret = None
    /\ prices = NoPrices

\* the caller picks the arguments of its next evaluations of black
ChooseBlackArgs ==
    /\ bpc = "rest"
    /\ bargs = NoArgs
    /\ origin = "none"
    /\ \E f \in BlackIn, k \in BlackIn, sg \in SigmaIn, t \in MaturityIn, nb \in KernelOut :
          bargs' = [F |-> f, K |-> k, sigma |-> sg, T |-> t, kernel |-> nb]
    /\ prices' = NoPrices
    /\ UNCHANGED <<bpc, top, cur, stack, bret>>
    /\ UNCHANGED <<ivvars, xvars>>

\* black(forward, strike, sigma, maturity, option_type) is called
BlackCall ==
    /\ bpc = "rest"
    /\ bargs # NoArgs
    /\ \E o \in OptionTypes :
          /\ prices[o] = None
          /\ top' = o
          /\ cur' = o
    /\ bpc' = "body"
    /\ stack' = <<>>
    /\ bret' = None
    /\ UNCHANGED <<bargs, prices>>
    /\ UNCHANGED <<ivvars, xvars>>

\* the in-the-money branch: black calls itself with the opposite option type
CanMirror ==
    /\ bpc = "body"
    /\ InTheMoney(bargs.F, bargs.K, cur)
    /\ Len(stack) < MaxDepth

BlackMirror ==
    /\ CanMirror
    /\ stack' = Append(stack, Intrinsic(bargs.F, bargs.K, cur))
    /\ cur' = NegOptionType(cur)
    /\ UNCHANGED <<bargs, bpc, top, bret, prices>>
    /\ UNCHANGED <<ivvars, xvars>>

\* the out-of-the-money branch: the call returns max(intrinsic, value)
CanOtm ==
    /\ bpc = "body"
    /\ ~InTheMoney(bargs.F, bargs.K, cur)

BlackOtm ==
    /\ CanOtm
    /\ bret' = OtmValue(bargs.F, bargs.K, bargs.sigma, bargs.T, cur, bargs.kernel)
    /\ bpc' = "return"
    /\ UNCHANGED <<bargs, top, cur, stack, prices>>
    /\ UNCHANGED <<ivvars, xvars>>

\* a mirrored call returns to the call that waits for it
BlackMirrorReturn ==
    /\ bpc = "return"
    /\ stack # <<>>
    /\ bret' = MirrorReturn(stack[Len(stack)], bret)
    /\ stack' = SubSeq(stack, 1, Len(stack) - 1)
    /\ cur' = NegOptionType(cur)
    /\ UNCHANGED <<bargs, bpc, top, prices>>
    /\ UNCHANGED <<ivvars, xvars>>

\* the outermost call returns to the caller
BlackReturn ==
    /\ bpc = "return"
    /\ stack = <<>>
    /\ prices' = [prices EXCEPT ![top] = bret]
    /\ bpc' = "rest"
    /\ UNCHANGED <<bargs, top, cur, stack, bret>>
    /\ UNCHANGED <<ivvars, xvars>>

\* the caller is done with these arguments and drops the prices it got
ForgetBlack ==
    /\ bpc = "rest"
    /\ bargs # NoArgs
    /\ \A o \in OptionTypes : prices[o] # None
    /\ bargs' = NoArgs
    /\ prices' = NoPrices
    /\ bret' = None
    /\ top' = "Call"
    /\ cur' = "Call"
    /\ UNCHANGED <<bpc, stack>>
    /\ UNCHANGED <<ivvars, xvars>>

BlackNext ==
    \/ ChooseBlackArgs
    \/ ForgetBlack
    \/ BlackCall
    \/ BlackMirror
    \/ BlackOtm
    \/ BlackMirrorReturn
    \/ BlackReturn

(* ------------------- black at two volatilities ------------------------ *)

NoMono == [pc |-> "none", F |-> None, K |-> None, T |-> None, option_type |-> "Call",
           sigma1 |-> None, sigma2 |-> None, kernel1 |-> None, kernel2 |-> None,
           lo |-> None, hi |-> None]

\* forwards and strikes, volatilities and maturities of the comparison
MonoPriceIn == {a \in FiniteVals : a.v > 0}
MonoSigmaIn == {Zero, Fin(1), FOne, Fin(2 * One)}
MonoMaturityIn == {Zero, FOne}
\* the values of the kernel: it is strictly increasing in the total deviation
\* sigma * sqrt(T) it is handed
MonoKernelOut == {Zero, Fin(1), FOne}

\* fixed forward, strike, maturity and option type, and sigma1 < sigma2
MonoArgs ==
    {m \in [pc : {"args"}, F : MonoPriceIn, K : MonoPriceIn, T : MonoMaturityIn,
            option_type : OptionTypes, sigma1 : MonoSigmaIn, sigma2 : MonoSigmaIn,
            kernel1 : MonoKernelOut, kernel2 : MonoKernelOut,
            lo : {None}, hi : {None}] :
        /\ FLt(m.sigma1, m.sigma2)
        /\ LET s1 == TotalDeviation(m.sigma1, m.T)
               s2 == TotalDeviation(m.sigma2, m.T)
           IN  IF FLt(s1, s2) THEN FLt(m.kernel1, m.kernel2)
               ELSE m.kernel1 = m.kernel2}

\* black(F, K, sigma1, T, option_type)
MonoLow ==
    /\ mono.pc = "args"
    /\ mono' = [mono EXCEPT !.pc = "low",
                            !.lo = black(mono.F, mono.K, mono.sigma1, mono.T,
                                         mono.option_type, mono.kernel1)]
    /\ UNCHANGED <<mem, thr, kern, gk, first, bvars, ivvars>>

\* black(F, K, sigma2, T, option_type)
MonoHigh ==
    /\ mono.pc = "low"
    /\ mono' = [mono EXCEPT !.pc = "both",
                            !.hi = black(mono.F, mono.K, mono.sigma2, mono.T,
                                         mono.option_type, mono.kernel2)]
    /\ UNCHANGED <<mem, thr, kern, gk, first, bvars, ivvars>>

MonoNext ==
    \/ MonoLow
    \/ MonoHigh

(* ---------------------- implied volatility ---------------------------- *)

Widths == {"f32", "f64"}

\* a variant of the iteration budget that gives f32 the budget of f64
MaximumIterationsAlwaysTwo(T) == 2

\* a variant of the iteration budget that is used up by the first solve: what
\* is left for the later ones is 1
MaximumIterationsLeftOver(T) ==
    IF DOMAIN first.run = {} THEN (IF T = "f32" THEN 1 ELSE 2) ELSE 1

\* FloatMaxIterations::implied_volatility_maximum_iterations for f32 and f64
implied_volatility_maximum_iterations(T) == IF T = "f32" THEN 1 ELSE 2

\* a variant of RationalIvWidth that solves in the width of the Inputs
RationalIvWidthOfInputs(T) == T

\* the width implied_volatility_from_a_transformed_rational_guess is
\* instantiated with by calc_rational_iv of Inputs<T>: every argument is cast
\* with "as f64"
RationalIvWidth(T) == "f64"

\* calc_rational_iv: the undiscounted price p * e^(r t)
UndiscountedPrice(i) == FMul(i.p, FExp(FMul(i.r, i.t)))

\* calc_rational_iv: the forward s * e^(r t) * e^(-q t)
ForwardOf(i) == FMul(FMul(i.s, FExp(FMul(i.r, i.t))), FExp(FMul(FNeg(i.q), i.t)))

\* a variant of RationalIvResult without the test sigma < 0.0
RationalIvResultNoSignCheck(sigma) ==
    IF is_nan(sigma) \/ is_infinite(sigma)
    THEN [tag |-> "Err", v |-> None, msg |-> "Implied volatility failed to converge"]
    ELSE [tag |-> "Ok", v |-> sigma, msg |-> ""]

\* a variant of RationalIvResult without the test sigma.is_infinite()
RationalIvResultNoInfCheck(sigma) ==
    IF is_nan(sigma) \/ FLt(sigma, Zero)
    THEN [tag |-> "Err", v |-> None, msg |-> "Implied volatility failed to converge"]
    ELSE [tag |-> "Ok", v |-> sigma, msg |-> ""]

\* a variant of RationalIvResult with sigma <= 0.0 in place of sigma < 0.0
RationalIvResultRejectsZero(sigma) ==
    IF is_nan(sigma) \/ is_infinite(sigma) \/ FLe(sigma, Zero)
    THEN [tag |-> "Err", v |-> None, msg |-> "Implied volatility failed to converge"]
    ELSE [tag |-> "Ok", v |-> sigma, msg |-> ""]

\* a variant of RationalIvResult that also rejects the result of a solve that
\* used up its iteration budget
RationalIvResultRejectsExhausted(sigma) ==
    IF is_nan(sigma) \/ is_infinite(sigma) \/ FLt(sigma, Zero) \/ sv.stage = "Exhausted"
    THEN [tag |-> "Err", v |-> None, msg |-> "Implied volatility failed to converge"]
    ELSE [tag |-> "Ok", v |-> sigma, msg |-> ""]

\* calc_rational_iv: the check of the solver's result
RationalIvResult(sigma) ==
    IF is_nan(sigma) \/ is_infinite(sigma) \/ FLt(sigma, Zero)
    THEN [tag |-> "Err", v |-> None, msg |-> "Implied volatility failed to converge"]
    ELSE [tag |-> "Ok", v |-> sigma, msg |-> ""]

NoInputs == [option_type |-> "Call", s |-> None, k |-> None, p |-> None,
             r |-> None, q |-> None, t |-> None, T |-> "f64"]
NoResult == [tag |-> "none", v |-> None, msg |-> ""]
NoSolve == [stage |-> "none", T |-> "f64", limit |-> 0, iters |-> 0,
            price |-> None, F |-> None, K |-> None, tm |-> None,
            option_type |-> "Call", est |-> None]

\* implied_volatility_from_a_transformed_rational_guess::<T>: the call of
\* ..._with_limited_iterations with T's iteration budget as the limit
SolveStart(T, market_price, forward_price, strike_price, time_to_maturity, option_type) ==
    [stage |-> "Unstarted", T |-> T,
     limit |-> implied_volatility_maximum_iterations(T), iters |-> 0,
     price |-> market_price, F |-> forward_price, K |-> strike_price,
     tm |-> time_to_maturity, option_type |-> option_type, est |-> None]

\* calc_rational_iv: its call of the solver, with every argument cast to f64
RationalIvStart(i) ==
    SolveStart(RationalIvWidth(i.T), UndiscountedPrice(i), ForwardOf(i),
               i.k, i.t, i.option_type)

\* the prices, forwards and strikes a caller hands in
SolveIn == {Zero, FOne, Fin(2 * One), NaN, PInf}
RateIn == {Zero, FOne}
\* the option prices of an Inputs: those of SolveIn and the smallest positive one
PriceIn == SolveIn \cup {Fin(1)}
\* the maturities of an Inputs
TimeIn == RateIn \cup {NaN, PInf}
\* the volatility estimates the numerical steps of the solver may produce
EstOut == {Zero, FOne, Fin(-One), NaN, PInf, NInf}
\* the values with which the solver signals a failure to its caller
FailOut == {Fin(-One), NaN, PInf, NInf}

\* DomainFailure: a forward, strike or maturity that is NaN or infinite
DomainFailure(s) == ~is_finite(s.F) \/ ~is_finite(s.K) \/ ~is_finite(s.tm)

\* a variant of InvalidPrice that only looks for a price below the intrinsic
\* value
InvalidPriceBelowOnly(s) ==
    FLt(s.price, Intrinsic(s.F, s.K, s.option_type))

\* InvalidPrice: a market price below the intrinsic value or above the
\* undiscounted forward value
InvalidPrice(s) ==
    \/ FLt(s.price, Intrinsic(s.F, s.K, s.option_type))
    \/ FGt(s.price, s.F)

\* the lower boundary: a market price that is exactly the intrinsic value
AtIntrinsic(s) == s.price = Intrinsic(s.F, s.K, s.option_type)

\* the out-of-the-money part of the market price over sqrt(F) * sqrt(K): the
\* normalised price the solver inverts
NormalisedOtmPrice(s) ==
    FDiv(IF InTheMoney(s.F, s.K, s.option_type)
         THEN FAbs(FMax(FSub(s.price, Intrinsic(s.F, s.K, s.option_type)), Zero))
         ELSE s.price,
         FMul(FSqrt(s.F), FSqrt(s.K)))

\* the lower boundary: a market price that is exactly the intrinsic value, or
\* a normalised price that is not above the floor of the representable ones
AtLowerBoundary(s) ==
    \/ AtIntrinsic(s)
    \/ FLe(NormalisedOtmPrice(s), Fin(DENORMALISATION_CUTOFF))

IvInit ==
    /\ inp = NoInputs
    /\ origin = "none"
    /\ sv = NoSolve
    /\ ivres = NoResult

AtRest ==
    /\ bpc = "rest" /\ bargs = NoArgs /\ origin = "none"
    /\ gk.pc = "idle" /\ \A o \in DOMAIN mem : mem[o].s = None

\* Inputs<T>::calc_rational_iv with p = None: the error return of the first line
RationalIvNoPrice ==
    /\ AtRest
    /\ \E T \in Widths, o \in OptionTypes, s \in SolveIn, k \in SolveIn,
          r \in RateIn, q \in RateIn, t \in RateIn :
          inp' = [option_type |-> o, s |-> s, k |-> k, p |-> None,
                  r |-> r, q |-> q, t |-> t, T |-> T]
    /\ origin' = "inputs"
    /\ sv' = NoSolve
    /\ ivres' = [tag |-> "Err", v |-> None, msg |-> "Option price is required"]
    /\ UNCHANGED <<bvars, xvars>>

\* Inputs<T>::calc_rational_iv with p = Some(..), up to its call of the solver
RationalIvCall ==
    /\ AtRest
    /\ \E T \in Widths, o \in OptionTypes, s \in SolveIn, k \in SolveIn, p \in PriceIn,
          r \in RateIn, q \in RateIn, t \in TimeIn :
          LET i == [option_type |-> o, s |-> s, k |-> k, p |-> p,
                    r |-> r, q |-> q, t |-> t, T |-> T]
          IN  /\ inp' = i
              /\ sv' = RationalIvStart(i)
    /\ origin' = "inputs"
    /\ ivres' = NoResult
    /\ UNCHANGED <<bvars, xvars>>

\* a direct call of implied_volatility_from_a_transformed_rational_guess::<T>
CoreCall ==
    /\ AtRest
    /\ \E T \in Widths, o \in OptionTypes, p \in SolveIn, f \in SolveIn, k \in SolveIn,
          t \in RateIn \cup {NaN} :
          sv' = SolveStart(T, p, f, k, t, o)
    /\ origin' = "core"
    /\ inp' = NoInputs
    /\ ivres' = NoResult
    /\ UNCHANGED <<bvars, xvars>>

\* Unstarted -> Normalized, or the failure found before any iteration: a
\* non-finite input, or a price outside the no-arbitrage bounds
SolverNormalize ==
    /\ sv.stage = "Unstarted"
    /\ IF DomainFailure(sv)
       THEN \E x \in FailOut : sv' = [sv EXCEPT !.stage = "DomainFailure", !.est = x]
       ELSE IF InvalidPrice(sv)
       THEN \E x \in FailOut : sv' = [sv EXCEPT !.stage = "InvalidPrice", !.est = x]
       ELSE sv' = [sv EXCEPT !.stage = "Normalized"]
    /\ UNCHANGED <<inp, origin, ivres, bvars, xvars>>

\* Normalized -> InitialGuess, or volatility 0 at the lower boundary
SolverInitialGuess ==
    /\ sv.stage = "Normalized"
    /\ IF AtLowerBoundary(sv)
       THEN sv' = [sv EXCEPT !.stage = "Converged", !.est = Zero]
       ELSE \E x \in EstOut : sv' = [sv EXCEPT !.stage = "InitialGuess", !.est = x]
    /\ UNCHANGED <<inp, origin, ivres, bvars, xvars>>

\* one Householder iteration: InitialGuess -> Refining(1), Refining(i) -> Refining(i+1)
CanRefine ==
    /\ sv.stage \in {"InitialGuess", "Refining"}
    /\ sv.iters < sv.limit

SolverRefine ==
    /\ CanRefine
    /\ \E x \in EstOut :
          sv' = [sv EXCEPT !.stage = "Refining", !.iters = sv.iters + 1, !.est = x]
    /\ UNCHANGED <<inp, origin, ivres, bvars, xvars>>

\* the residual is below the smallest representable increment
SolverConverged ==
    /\ sv.stage \in {"InitialGuess", "Refining"}
    /\ sv' = [sv EXCEPT !.stage = "Converged"]
    /\ UNCHANGED <<inp, origin, ivres, bvars, xvars>>

\* the iteration budget is used up
CanExhaust ==
    /\ sv.stage \in {"InitialGuess", "Refining"}
    /\ sv.iters >= sv.limit

SolverExhausted ==
    /\ CanExhaust
    /\ sv' = [sv EXCEPT !.stage = "Exhausted"]
    /\ UNCHANGED <<inp, origin, ivres, bvars, xvars>>

SolverDone == sv.stage \in {"Converged", "Exhausted", "InvalidPrice", "DomainFailure"}

\* the solver returns its estimate; calc_rational_iv checks it
SolverReturn ==
    /\ SolverDone
    /\ ivres = NoResult
    /\ ivres' = IF origin = "inputs" THEN RationalIvResult(sv.est)
                ELSE [tag |-> "Core", v |-> sv.est, msg |-> ""]
    /\ UNCHANGED <<inp, origin, sv, bvars, xvars>>

\* the caller is done with the result
ForgetIv ==
    /\ origin # "none"
    /\ ivres # NoResult
    /\ inp' = NoInputs
    /\ origin' = "none"
    /\ sv' = NoSolve
    /\ ivres' = NoResult
    /\ UNCHANGED <<bvars, xvars>>

SolverStep ==
    \/ SolverNormalize
    \/ SolverInitialGuess
    \/ SolverRefine
    \/ SolverConverged
    \/ SolverExhausted
    \/ SolverReturn

(* ----------------- solves after a history of solves ------------------ *)

\* the states one step of the solver can lead to from the state s
SolverSuccessors(s) ==
    IF s.stage = "Unstarted"
    THEN (IF DomainFailure(s)
          THEN {[s EXCEPT !.stage = "DomainFailure", !.est = x] : x \in FailOut}
          ELSE IF InvalidPrice(s)
          THEN {[s EXCEPT !.stage = "InvalidPrice", !.est = x] : x \in FailOut}
          ELSE {[s EXCEPT !.stage = "Normalized"]})
    ELSE IF s.stage = "Normalized"
    THEN (IF AtLowerBoundary(s)
          THEN {[s EXCEPT !.stage = "Converged", !.est = Zero]}
          ELSE {[s EXCEPT !.stage = "InitialGuess", !.est = x] : x \in EstOut})
    ELSE IF s.stage \in {"InitialGuess", "Refining"}
    THEN {[s EXCEPT !.stage = "Converged"]}
         \cup (IF s.iters < s.limit
               THEN {[s EXCEPT !.stage = "Refining", !.iters = s.iters + 1, !.est = x] :
                        x \in EstOut}
               ELSE {[s EXCEPT !.stage = "Exhausted"]})
    ELSE {}

\* no solve was made yet: step holds what the numerical steps of the solver
\* yielded (they are functions of the solver's state), run what the solves
\* made so far did
NoFirst == [step |-> << >>, run |-> << >>]

\* the arguments of a solve
SolveKey(s) ==
    [market_price |-> s.price, forward_price |-> s.F, strike_price |-> s.K,
     time_to_maturity |-> s.tm, option_type |-> s.option_type]

\* what a finished solve did: where it ended, after how many iterations, and
\* what the caller got
SolveOutcome == [stage |-> sv.stage, iters |-> sv.iters, est |-> sv.est, res |-> ivres]

\* the Inputs of the callers that solve again and again
DetIn ==
    {[option_type |-> "Call", s |-> FOne, k |-> FOne, p |-> Fin(1),
      r |-> Zero, q |-> Zero, t |-> FOne],
     [option_type |-> "Put", s |-> FOne, k |-> FOne, p |-> Fin(2 * One),
      r |-> Zero, q |-> Zero, t |-> FOne]}

\* calc_rational_iv on an Inputs<T> with p = Some(..)
DetCall ==
    /\ AtRest
    /\ \E T \in Widths, i \in DetIn :
          LET typed == [option_type |-> i.option_type, s |-> i.s, k |-> i.k,
                        p |-> i.p, r |-> i.r, q |-> i.q, t |-> i.t, T |-> T]
          IN  /\ inp' = typed
              /\ sv' = RationalIvStart(typed)
    /\ origin' = "inputs"
    /\ ivres' = NoResult
    /\ UNCHANGED <<bvars, xvars>>

\* one step of the solver; what a numerical step yielded for a state before,
\* it yields again
DetStep ==
    /\ origin # "none"
    /\ ivres = NoResult
    /\ \E nxt \in SolverSuccessors(sv) :
          /\ sv \in DOMAIN first.step => nxt = first.step[sv]
          /\ sv' = nxt
          /\ first' = [first EXCEPT !.step = (sv :> nxt) @@ @]
    /\ UNCHANGED <<inp, origin, ivres, bvars, mem, thr, kern, gk, mono>>

\* the caller keeps what the solve did and is done with it
DetForget ==
    /\ origin # "none"
    /\ ivres # NoResult
    /\ first' = [first EXCEPT !.run = (SolveKey(sv) :> SolveOutcome) @@ @]
    /\ inp' = NoInputs
    /\ origin' = "none"
    /\ sv' = NoSolve
    /\ ivres' = NoResult
    /\ UNCHANGED <<bvars, mem, thr, kern, gk, mono>>

DetNext ==
    \/ DetCall
    \/ DetStep
    \/ SolverReturn
    \/ DetForget

IvNext ==
    \/ RationalIvNoPrice
    \/ RationalIvCall
    \/ CoreCall
    \/ SolverStep
    \/ ForgetIv

(* ---------------- Inputs, calc_price and calc_iv ---------------------- *)

\* a bound of the model: the number of Newton-Raphson iterations of calc_iv
\* up to which the model follows the loop
MaxIter == 2

\* the Inputs objects the callers hold, the threads that call methods on
\* them, and the place of the clone a running calc_iv of a thread works on
Objects == {"a", "b"}
Threads == {1, 2}
CloneOf(t) == IF t = 1 THEN "c1" ELSE "c2"
Places == Objects \cup {CloneOf(t) : t \in Threads}

\* no Inputs at this place
NoObject == [option_type |-> "Call", s |-> None, k |-> None, p |-> None,
             r |-> None, q |-> None, t |-> None, sigma |-> None]

\* constants::SQRT_2PI, PI and the coefficients A .. F of the initial
\* estimate, as the format holds them
SQRT_2PI == RoundRat(2506628 * One, 1000000)
PI == RoundRat(3141593 * One, 1000000)
A == RoundRat(462628 * One, 1000000)
B == RoundRat(-11685 * One, 1000000)
C == RoundRat(964 * One, 1000000)
D == RoundRat(75 * One, 1000000)
_E == RoundRat(14 * One, 1000000)
F == RoundRat(-21 * One, 1000000)

\* calc_iv: "let mut diff: $type = 100.0"
INITIAL_DIFF == 100
\* 100.0 is held exactly by f32 and f64; the model keeps it exact as well
InitialDiff == Fin(INITIAL_DIFF * One)

Two == Fin(2 * One)
Square(a) == FMul(a, a)

\* calc_iv: the initial estimate of sigma (modified Corrado-Miller)
InitialSigma(i, p) ==
    LET X == FMul(i.k, FExp(FMul(FNeg(i.r), i.t)))
        fminusX == FSub(i.s, X)
        fplusX == FAdd(i.s, X)
        oneoversqrtT == FDiv(FOne, FSqrt(i.t))
        x == FMul(oneoversqrtT, FDiv(SQRT_2PI, fplusX))
        root == FSqrt(FSub(Square(FSub(p, FDiv(fminusX, Two))),
                           FDiv(Square(fminusX), PI)))
        y == FAdd(FSub(p, FDiv(FSub(i.s, i.k), Two)), root)
        lead == FMul(FMul(oneoversqrtT, FDiv(SQRT_2PI, fplusX)),
                     FAdd(FSub(p, FDiv(fminusX, Two)), root))
    IN  FAdd(FAdd(FAdd(FAdd(FAdd(FAdd(lead, A), FDiv(B, x)), FMul(C, y)),
                       FDiv(D, Square(x))),
                  FMul(_E, Square(y))),
             FDiv(FMul(F, y), x))

Err(msg) == [tag |-> "Err", v |-> None, msg |-> msg]
Ok(v) == [tag |-> "Ok", v |-> v, msg |-> ""]

\* what the numerical kernel yields for an Inputs with sigma present:
\*   raw:  the combination of N(d1) and N(d2) calc_price clamps at 0,
\*   vega: the value of calc_vega()? * 100.0 in calc_iv
RawPriceOut == {Fin(-One), Zero, FOne, NaN}
VegaOut == {Zero, FOne}
PriceKernelOut == [raw : RawPriceOut, vega : VegaOut]
NoKernel == [raw |-> None, vega |-> None]

\* the kernel is a function of the Inputs: a value it yielded before is
\* yielded again
KernelAt(w) ==
    IF w.sigma = None THEN {NoKernel}
    ELSE IF w \in DOMAIN kern THEN {kern[w]}
    ELSE PriceKernelOut

Yielded(w, kv) ==
    IF w.sigma = None \/ w \in DOMAIN kern THEN kern ELSE (w :> kv) @@ kern

\* common::calc_d1d2, the first thing calc_price and calc_vega reach
SigmaRequired == "Expected Some(f32) for self.sigma, received None"

\* a variant of calc_price without the max against 0.0
calc_price_unclamped(w, kv) ==
    IF w.sigma = None THEN Err(SigmaRequired) ELSE Ok(kv.raw)

\* Inputs::calc_price: for a call and for a put alike the max of 0.0 and the
\* arm's combination of nd1 and nd2, which the kernel yields as kv.raw
calc_price(w, kv) ==
    IF w.sigma = None THEN Err(SigmaRequired) ELSE Ok(FMax(Zero, kv.raw))

\* Inputs::calc_vega()? * 100.0, as calc_iv uses it
VegaTimesHundred(w, kv) ==
    IF w.sigma = None THEN Err(SigmaRequired) ELSE Ok(kv.vega)

IdleThread == [pc |-> "idle", op |-> "none", self |-> "a", place |-> "a",
               tol |-> None, p |-> None, sigma |-> None, diff |-> None,
               iters |-> 0, res |-> NoResult, snap |-> NoObject,
               check |-> None, overlapped |-> FALSE]

\* another thread is in the middle of a call
OthersRunning(t) ==
    \E u \in Threads \ {t} : thr[u].pc \in {"loop", "price"}

\* a variant of WorkingPlace: calc_iv works on the receiver itself
WorkingPlaceIsSelf(t, self) == self

\* calc_iv: "let mut inputs: Inputs<$type> = self.clone()"
WorkingPlace(t, self) == CloneOf(t)

PRequired == "inputs.p must contain Some($type), found None"
FailedToConverge == "Failed to converge"

\* the tolerances a caller hands to calc_iv
ToleranceIn == {Fin(-One), Zero, Fin(1), InitialDiff, NaN}

\* calc_iv: "while diff.abs() > tolerance"
LoopGoesOn(diff, tol) == FGt(FAbs(diff), tol)

\* calc_iv up to its while loop, on the clone w: the test of p, the initial
\* estimate and its NaN test
IvEntry(call, w) ==
    LET p == w.p
        sigma == InitialSigma(w, p)
    IN  IF p = None
        THEN [call EXCEPT !.pc = "done", !.res = Err(PRequired)]
        ELSE IF is_nan(sigma)
        THEN [call EXCEPT !.pc = "done", !.p = p, !.sigma = sigma,
                          !.res = Err(FailedToConverge)]
        ELSE [call EXCEPT !.pc = "loop", !.p = p, !.sigma = sigma,
                          !.diff = InitialDiff]

\* calc_iv is called: the clone, then the statements up to the loop
IvCall(t) ==
    /\ thr[t].pc = "idle"
    /\ gk.pc = "idle"
    /\ \E self \in Objects, tol \in ToleranceIn :
          /\ mem[self] # NoObject
          /\ LET place == WorkingPlace(t, self)
                 call == [IdleThread EXCEPT !.op = "calc_iv", !.self = self,
                                            !.place = place, !.tol = tol,
                                            !.snap = mem[self],
                                            !.overlapped = OthersRunning(t)]
             IN  /\ mem' = [mem EXCEPT ![place] = mem[self]]
                 /\ thr' = [thr EXCEPT ![t] = IvEntry(call, mem[self])]
    /\ UNCHANGED <<kern, gk, mono, first, bvars, ivvars>>

\* the loop goes on: "inputs.sigma = Some(sigma)"
CanIterate(t) ==
    /\ thr[t].pc = "loop"
    /\ LoopGoesOn(thr[t].diff, thr[t].tol)

IvSetSigma(t) ==
    /\ CanIterate(t)
    /\ thr[t].iters < MaxIter
    /\ mem' = [mem EXCEPT ![thr[t].place].sigma = thr[t].sigma]
    /\ thr' = [thr EXCEPT ![t].pc = "price",
                          ![t].overlapped = @ \/ OthersRunning(t)]
    /\ UNCHANGED <<kern, gk, mono, first, bvars, ivvars>>

\* the Inputs the next iteration prices: the clone with the current sigma
NextPriced(t) == [mem[thr[t].place] EXCEPT !.sigma = thr[t].sigma]

\* the loop goes on past the iterations the model counts, through an Inputs
\* it has priced before: what the kernel yields for it is known
IvSetSigmaAgain(t) ==
    /\ CanIterate(t)
    /\ thr[t].iters >= MaxIter
    /\ NextPriced(t) \in DOMAIN kern
    /\ mem' = [mem EXCEPT ![thr[t].place].sigma = thr[t].sigma]
    /\ thr' = [thr EXCEPT ![t].pc = "price",
                          ![t].overlapped = @ \/ OthersRunning(t)]
    /\ UNCHANGED <<kern, gk, mono, first, bvars, ivvars>>

\* the loop goes on with an Inputs the model has not priced, past the
\* iterations the model counts: the model does not follow it further
BeyondModel(t) ==
    /\ CanIterate(t)
    /\ thr[t].iters >= MaxIter
    /\ NextPriced(t) \notin DOMAIN kern

\* the iterations are counted up to MaxIter
Counted(n) == IF n < MaxIter THEN n + 1 ELSE n

\* the rest of the loop body: diff = calc_price(&inputs)? - p, the Newton
\* step sigma -= diff / (calc_vega(&inputs)? * 100.0) and the test of sigma
\* (AfterStep is the thread after the pass, given the values it computed)
AfterStep(th, price, vega, diff, sigma) ==
    IF price.tag = "Err"
    THEN [th EXCEPT !.pc = "done", !.res = price]
    ELSE IF vega.tag = "Err"
    THEN [th EXCEPT !.pc = "done", !.diff = diff, !.res = vega]
    ELSE IF is_nan(sigma) \/ is_infinite(sigma)
    THEN [th EXCEPT !.pc = "done", !.diff = diff, !.sigma = sigma,
                    !.iters = Counted(@), !.res = Err(FailedToConverge)]
    ELSE [th EXCEPT !.pc = "loop", !.diff = diff, !.sigma = sigma,
                    !.iters = Counted(@)]

NewtonStep(th, w, kv) ==
    CHOOSE after \in
        { AfterStep(th, pv[1], pv[2], ds[1], ds[2]) :
            pv \in {<<calc_price(w, kv), VegaTimesHundred(w, kv)>>},
            ds \in { <<diff, FSub(th.sigma, quotient)>> :
                        diff \in {FSub(calc_price(w, kv).v, th.p)},
                        quotient \in {FDiv(FSub(calc_price(w, kv).v, th.p),
                                           VegaTimesHundred(w, kv).v)} } } : TRUE

IvNewton(t) ==
    /\ thr[t].pc = "price"
    /\ LET w == mem[thr[t].place]
       IN  \E kv \in KernelAt(w) :
              /\ kern' = Yielded(w, kv)
              /\ thr' = [thr EXCEPT ![t] =
                     [NewtonStep(thr[t], w, kv) EXCEPT !.overlapped = @ \/ OthersRunning(t)]]
    /\ UNCHANGED <<mem, gk, mono, first, bvars, ivvars>>

\* the loop ends: "Ok(sigma)"
IvReturn(t) ==
    /\ thr[t].pc = "loop"
    /\ ~LoopGoesOn(thr[t].diff, thr[t].tol)
    /\ thr' = [thr EXCEPT ![t].pc = "done", ![t].res = Ok(thr[t].sigma)]
    /\ UNCHANGED <<mem, kern, gk, mono, first, bvars, ivvars>>

\* Inputs::calc_price on an object
PriceCall(t) ==
    /\ thr[t].pc = "idle"
    /\ gk.pc = "idle"
    /\ \E self \in Objects :
          /\ mem[self] # NoObject
          /\ \E kv \in KernelAt(mem[self]) :
                /\ kern' = Yielded(mem[self], kv)
                /\ thr' = [thr EXCEPT ![t] =
                       [IdleThread EXCEPT !.op = "calc_price", !.self = self,
                                          !.place = self, !.snap = mem[self],
                                          !.overlapped = OthersRunning(t),
                                          !.pc = "done",
                                          !.res = calc_price(mem[self], kv)]]
    /\ UNCHANGED <<mem, gk, mono, first, bvars, ivvars>>

\* the caller of a calc_iv that returned Ok(sigma) prices the option at that
\* sigma: calc_price on the Inputs with sigma = Some(sigma)
PriceAtResult(t) ==
    /\ thr[t].pc = "done"
    /\ thr[t].op = "calc_iv"
    /\ thr[t].res.tag = "Ok"
    /\ LET w == [thr[t].snap EXCEPT !.sigma = thr[t].res.v]
       IN  \E kv \in KernelAt(w) :
              /\ kern' = Yielded(w, kv)
              /\ thr' = [thr EXCEPT ![t].pc = "checked",
                                    ![t].check = calc_price(w, kv).v]
    /\ UNCHANGED <<mem, gk, mono, first, bvars, ivvars>>

(* ------------------ two threads on shared Inputs ---------------------- *)

\* the Inputs two threads share: one with sigma and one without
ConcMem ==
    [o \in Places |->
        IF o = "a"
        THEN [option_type |-> "Call", s |-> FOne, k |-> FOne, p |-> FOne,
              r |-> Zero, q |-> Zero, t |-> FOne, sigma |-> FOne]
        ELSE IF o = "b"
        THEN [option_type |-> "Call", s |-> FOne, k |-> FOne, p |-> Fin(1),
              r |-> Zero, q |-> Zero, t |-> FOne, sigma |-> None]
        ELSE NoObject]

\* what calc_iv(tol) on the Inputs w returns when nothing else runs, as far
\* as the values the kernel has yielded tell: the loop from the state th on
RECURSIVE NewtonAlone(_, _, _)
NewtonAlone(th, w, n) ==
    IF ~LoopGoesOn(th.diff, th.tol) THEN Ok(th.sigma)
    ELSE LET at == [w EXCEPT !.sigma = th.sigma]
         IN  IF n = 0 \/ at \notin DOMAIN kern THEN NoResult
             ELSE LET nxt == NewtonStep(th, at, kern[at])
                  IN  IF nxt.pc = "done" THEN nxt.res
                      ELSE NewtonAlone(nxt, at, n - 1)

IvAlone(w, tol) ==
    LET th == IvEntry([IdleThread EXCEPT !.tol = tol], w)
    IN  IF th.pc = "done" THEN th.res ELSE NewtonAlone(th, w, MaxIter)

ConcNext ==
    \/ \E t \in Threads : IvCall(t)
    \/ \E t \in Threads : IvSetSigma(t)
    \/ \E t \in Threads : IvNewton(t)
    \/ \E t \in Threads : IvReturn(t)
    \/ \E t \in Threads : PriceCall(t)

(* --------------------- Greeks and calc_all_greeks --------------------- *)

\* the ok_or of the methods that unwrap self.sigma themselves ("$type" is
\* inside the string literal, so the macro does not replace it)
SigmaRequiredOfType == "Expected Some($type) for self.sigma, received None"

\* a variant of GreekCalls that inserts rho under the key of vega
GreekCallsRhoUnderVega ==
    << [key |-> "delta", method |-> "delta"],
       [key |-> "gamma", method |-> "gamma"],
       [key |-> "theta", method |-> "theta"],
       [key |-> "vega", method |-> "vega"],
       [key |-> "vega", method |-> "rho"],
       [key |-> "epsilon", method |-> "epsilon"],
       [key |-> "lambda", method |-> "lambda"],
       [key |-> "vanna", method |-> "vanna"],
       [key |-> "charm", method |-> "charm"],
       [key |-> "veta", method |-> "veta"],
       [key |-> "vomma", method |-> "vomma"],
       [key |-> "speed", method |-> "speed"],
       [key |-> "zomma", method |-> "zomma"],
       [key |-> "color", method |-> "color"],
       [key |-> "ultima", method |-> "ultima"],
       [key |-> "dual_delta", method |-> "dual_delta"],
       [key |-> "dual_gamma", method |-> "dual_gamma"] >>

\* calc_all_greeks: its insertions in order, key and method calc_<method>
GreekCalls ==
    << [key |-> "delta", method |-> "delta"],
       [key |-> "gamma", method |-> "gamma"],
       [key |-> "theta", method |-> "theta"],
       [key |-> "vega", method |-> "vega"],
       [key |-> "rho", method |-> "rho"],
       [key |-> "epsilon", method |-> "epsilon"],
       [key |-> "lambda", method |-> "lambda"],
       [key |-> "vanna", method |-> "vanna"],
       [key |-> "charm", method |-> "charm"],
       [key |-> "veta", method |-> "veta"],
       [key |-> "vomma", method |-> "vomma"],
       [key |-> "speed", method |-> "speed"],
       [key |-> "zomma", method |-> "zomma"],
       [key |-> "color", method |-> "color"],
       [key |-> "ultima", method |-> "ultima"],
       [key |-> "dual_delta", method |-> "dual_delta"],
       [key |-> "dual_gamma", method |-> "dual_gamma"] >>

\* the Greeks of the trait
GreekNames == {GreekCalls[j].method : j \in 1..Len(GreekCalls)}

\* the Greeks whose method starts with its own ok_or on self.sigma; the
\* others reach calc_d1d2 first (through calc_nd1nd2, calc_nprimed1 or
\* calc_delta)
UnwrapsSigmaItself ==
    {"gamma", "theta", "vanna", "charm", "veta", "vomma", "speed", "zomma",
     "color", "ultima", "dual_gamma"}

\* Inputs::calc_<name>: Err when sigma is None, and otherwise Ok with the
\* value of the Greek's formula for these Inputs (kept as a term)
calc_greek(name, w) ==
    IF w.sigma = None
    THEN Err(IF name \in UnwrapsSigmaItself THEN SigmaRequiredOfType ELSE SigmaRequired)
    ELSE Ok([greek |-> name, of |-> w])

NoGreeks == [pc |-> "idle", self |-> "a", j |-> 0, map |-> << >>, res |-> NoResult]

\* nothing is running on the Inputs objects
ThreadsIdle == \A t \in Threads : thr[t].pc = "idle"

\* a call of one Greek on an object
GreekCall(t) ==
    /\ thr[t].pc = "idle"
    /\ gk.pc = "idle"
    /\ \E self \in Objects, name \in GreekNames :
          /\ mem[self] # NoObject
          /\ thr' = [thr EXCEPT ![t] =
                 [IdleThread EXCEPT !.op = name, !.self = self, !.place = self,
                                    !.snap = mem[self],
                                    !.overlapped = OthersRunning(t),
                                    !.pc = "done",
                                    !.res = calc_greek(name, mem[self])]]
    /\ UNCHANGED <<mem, kern, gk, mono, first, bvars, ivvars>>

\* a variant of calc_rational_price that takes 0 for a missing sigma
calc_rational_price_sigma_defaulted(w, nb) ==
    LET forward == FMul(w.s, FExp(FMul(FSub(w.r, w.q), w.t)))
        sigma == IF w.sigma = None THEN Zero ELSE w.sigma
    IN  Ok(FMul(black(forward, w.k, sigma, w.t, w.option_type, nb),
                FExp(FMul(FNeg(w.r), w.t))))

\* Inputs::calc_rational_price; nb is what the kernel of black yields
calc_rational_price(w, nb) ==
    LET forward == FMul(w.s, FExp(FMul(FSub(w.r, w.q), w.t)))
    IN  IF w.sigma = None THEN Err(SigmaRequiredOfType)
        ELSE Ok(FMul(black(forward, w.k, w.sigma, w.t, w.option_type, nb),
                     FExp(FMul(FNeg(w.r), w.t))))

\* a call of calc_rational_price on an object
RationalPriceCall(t) ==
    /\ thr[t].pc = "idle"
    /\ gk.pc = "idle"
    /\ \E self \in Objects, nb \in KernelOut :
          /\ mem[self] # NoObject
          /\ thr' = [thr EXCEPT ![t] =
                 [IdleThread EXCEPT !.op = "calc_rational_price", !.self = self,
                                    !.place = self, !.snap = mem[self],
                                    !.overlapped = OthersRunning(t),
                                    !.pc = "done",
                                    !.res = calc_rational_price(mem[self], nb)]]
    /\ UNCHANGED <<mem, kern, gk, mono, first, bvars, ivvars>>

\* calc_all_greeks: "let mut greeks = HashMap::with_capacity(17)"
AllGreeksCall ==
    /\ gk.pc = "idle"
    /\ ThreadsIdle
    /\ \E self \in Objects :
          /\ mem[self] # NoObject
          /\ gk' = [NoGreeks EXCEPT !.pc = "fill", !.self = self]
    /\ UNCHANGED <<mem, thr, kern, mono, first, bvars, ivvars>>

\* calc_all_greeks: one "greeks.insert(key.into(), self.calc_<method>()?)"
AllGreeksInsert ==
    /\ gk.pc = "fill"
    /\ gk.j < Len(GreekCalls)
    /\ LET call == GreekCalls[gk.j + 1]
           r == calc_greek(call.method, mem[gk.self])
       IN  gk' = IF r.tag = "Err"
                 THEN [gk EXCEPT !.pc = "done", !.res = r]
                 ELSE [gk EXCEPT !.j = @ + 1, !.map = (call.key :> r.v) @@ @]
    /\ UNCHANGED <<mem, thr, kern, mono, first, bvars, ivvars>>

\* calc_all_greeks: "Ok(greeks)"
AllGreeksReturn ==
    /\ gk.pc = "fill"
    /\ gk.j = Len(GreekCalls)
    /\ gk' = [gk EXCEPT !.pc = "done", !.res = Ok(gk.map)]
    /\ UNCHANGED <<mem, thr, kern, mono, first, bvars, ivvars>>

(* ------------------------ calls on one Inputs ------------------------- *)

NoMem == [o \in Places |-> NoObject]

\* the field values of the Inputs a caller builds
ObjectsIn ==
    [option_type : OptionTypes, s : {FOne, Two}, k : {FOne},
     p : {None, Zero, Fin(1), FOne}, r : {Zero}, q : {Zero}, t : {Zero, FOne},
     sigma : {None, FOne}]

XInit ==
    /\ mem = NoMem
    /\ thr = [t \in Threads |-> IdleThread]
    /\ kern = << >>
    /\ gk = NoGreeks

\* Inputs::new: the caller builds an Inputs
NewInputs ==
    /\ AtRest
    /\ mem = NoMem
    /\ \E i \in ObjectsIn : mem' = [mem EXCEPT !["a"] = i]
    /\ UNCHANGED <<thr, kern, gk, mono, first, bvars, ivvars>>

\* the caller is done with its Inputs and with what it got from them
DropInputs ==
    /\ mem # NoMem
    /\ \A t \in Threads : thr[t].pc \in {"idle", "done", "checked"}
    /\ gk.pc \in {"idle", "done"}
    /\ ~(ThreadsIdle /\ gk.pc = "idle")
    /\ mem' = NoMem
    /\ thr' = [t \in Threads |-> IdleThread]
    /\ kern' = << >>
    /\ gk' = NoGreeks
    /\ UNCHANGED <<mono, first, bvars, ivvars>>

\* the thread of the caller that works alone
Caller == 1

InputsNext ==
    \/ NewInputs
    \/ DropInputs
    \/ IvCall(Caller)
    \/ IvSetSigma(Caller)
    \/ IvNewton(Caller)
    \/ IvReturn(Caller)
    \/ PriceAtResult(Caller)
    \/ PriceCall(Caller)
    \/ GreekCall(Caller)
    \/ RationalPriceCall(Caller)
    \/ AllGreeksCall
    \/ AllGreeksInsert
    \/ AllGreeksReturn
    \/ RationalIvNoPrice
    \/ ForgetIv

\* the next statement of a calc_iv that is in its loop
IvLoop(t) ==
    \/ IvSetSigma(t)
    \/ IvSetSigmaAgain(t)
    \/ IvNewton(t)
    \/ IvReturn(t)

\* calc_iv alone, its loop followed for as long as it goes on
TermNext ==
    \/ NewInputs
    \/ DropInputs
    \/ IvCall(Caller)
    \/ IvSetSigma(Caller)
    \/ IvSetSigmaAgain(Caller)
    \/ IvNewton(Caller)
    \/ IvReturn(Caller)

(* ------------------------- the specification -------------------------- *)

vars == <<bvars, ivvars, xvars>>


Init ==
    /\ BlackInit
    /\ IvInit
    /\ XInit
    /\ mono = NoMono
    /\ first = NoFirst

Next ==
    \/ BlackNext
    \/ IvNext

Spec == Init /\ [][Next]_vars

ConcInit ==
    /\ BlackInit
    /\ IvInit
    /\ mem = ConcMem
    /\ thr = [t \in Threads |-> IdleThread]
    /\ kern = << >>
    /\ gk = NoGreeks
    /\ mono = NoMono
    /\ first = NoFirst

MonoInit ==
    /\ BlackInit
    /\ IvInit
    /\ XInit
    /\ mono \in MonoArgs
    /\ first = NoFirst

\* black is evaluated at two volatilities, the other arguments fixed
MonoSpec == MonoInit /\ [][MonoNext]_vars

\* calc_iv runs on: no statement of a running call waits for ever
TermSpec ==
    /\ Init
    /\ [][TermNext]_vars
    /\ WF_vars(IvLoop(Caller))

\* solve after solve, each after the history of the earlier ones
DetSpec == Init /\ [][DetNext]_vars

\* two threads call calc_iv and calc_price on Inputs they share
ConcSpec == ConcInit /\ [][ConcNext]_vars

\* one caller at a time works on one Inputs: calc_price, the Greeks,
\* calc_all_greeks, calc_iv and calc_rational_iv without a price
InputsSpec == Init /\ [][InputsNext]_vars

(* ----------------------------- properties ----------------------------- *)

\* calc_rational_iv has returned from a call that ran the solver
RationalIvReturned == origin = "inputs" /\ sv.stage # "none" /\ ivres # NoResult

\* C1: calc_rational_iv returns Ok(sigma) only when the solver's result is
\* finite and >= 0, and then sigma is that result; for every solver result
\* that is NaN, infinite or negative it returns Err and no volatility.
RationalIvOkOnlyFiniteNonNegative ==
    RationalIvReturned =>
        /\ ivres.tag \in {"Ok", "Err"}
        /\ ivres.tag = "Ok" =>
              is_finite(sv.est) /\ sv.est.v >= 0 /\ ivres.v = sv.est
        /\ (is_nan(sv.est) \/ is_infinite(sv.est) \/ FLt(sv.est, Zero)) =>
              ivres.tag = "Err" /\ ivres.v = None

\* C1: the solver used up its budget with a negative estimate and
\* calc_rational_iv returned Err
NegativeResultRejected ==
    /\ RationalIvReturned
    /\ sv.stage = "Exhausted"
    /\ sv.est = Fin(-One)
    /\ ivres.tag = "Err"

IterationBudgetRespected ==
    sv.stage # "none" =>
        /\ sv.T = "f32" => sv.limit = 1 /\ sv.iters <= 1
        /\ sv.T = "f64" => sv.limit = 2 /\ sv.iters <= 2
        /\ ivres = NoResult =>
              \/ sv.stage \in {"Unstarted", "Normalized"}
              \/ CanRefine
              \/ CanExhaust
              \/ SolverDone

\* C3: an f32 solve used its whole budget of one iteration and returned
SingleBudgetUsedUp ==
    /\ sv.T = "f32"
    /\ sv.stage = "Exhausted"
    /\ sv.iters = 1
    /\ ivres # NoResult

\* C4 as stated: a solve started from Inputs<f32>::calc_rational_iv runs under
\* the single-precision budget and one started from Inputs<f64> under the
\* double-precision budget.
BudgetFollowsInputsWidth ==
    (origin = "inputs" /\ sv.stage # "none") =>
        sv.limit = (IF inp.T = "f32" THEN 1 ELSE 2)

\* C4 as amended: a solve started from calc_rational_iv runs in f64 under the
\* double-precision budget of 2 iterations whatever the width of the Inputs;
\* only a direct call of the generic solver with f32 runs under the budget 1.
RationalIvSolvesInDoublePrecision ==
    /\ (origin = "inputs" /\ sv.stage # "none") =>
          sv.T = "f64" /\ sv.limit = 2 /\ sv.iters <= 2
    /\ (origin = "core" /\ sv.stage # "none") =>
          sv.limit = (IF sv.T = "f32" THEN 1 ELSE 2) /\ sv.iters <= sv.limit

\* C4: a solve started from Inputs<f32> has run two iterations
SinglePrecisionInputsRanTwice ==
    /\ origin = "inputs"
    /\ inp.T = "f32"
    /\ sv.iters = 2

\* C5: every call of black, mirrored or not, returns a price that is not
\* below its intrinsic value (and is not NaN), whatever normalised_black
\* yields.
BlackNeverBelowIntrinsic ==
    /\ bpc = "return" => FGe(bret, Intrinsic(bargs.F, bargs.K, cur))
    /\ \A o \in OptionTypes :
          prices[o] # None => FGe(prices[o], Intrinsic(bargs.F, bargs.K, o))

\* C5: an in-the-money call was priced through the mirror while the kernel
\* yielded a negative value
MirroredPriceWithNegativeKernel ==
    /\ bargs # NoArgs
    /\ InTheMoney(bargs.F, bargs.K, "Call")
    /\ is_finite(bargs.F) /\ is_finite(bargs.K)
    /\ FLt(bargs.kernel, Zero)
    /\ FGt(TotalDeviation(bargs.sigma, bargs.T), Zero)
    /\ prices["Call"] # None

\* forward and strike finite and positive, sigma and maturity finite and >= 0
ValidBlackArgs ==
    /\ bargs # NoArgs
    /\ is_finite(bargs.F) /\ bargs.F.v > 0
    /\ is_finite(bargs.K) /\ bargs.K.v > 0
    /\ is_finite(bargs.sigma) /\ bargs.sigma.v >= 0
    /\ is_finite(bargs.T) /\ bargs.T.v >= 0

\* the caller has both prices of valid arguments, and both are finite
BothPrices ==
    /\ ValidBlackArgs
    /\ is_finite(prices["Call"])
    /\ is_finite(prices["Put"])

ParityDifference == FSub(prices["Call"], prices["Put"])

\* C6 as stated: black(.., Call) - black(.., Put) equals F - K.
PutCallParityExact ==
    BothPrices => ParityDifference = FSub(bargs.F, bargs.K)

\* C6 as amended: black(.., Call) - black(.., Put) equals F - K when F == K,
\* and otherwise differs from F - K by at most one unit in the last place of
\* the larger of the two prices (the rounding of intrinsic + mirrored price
\* and of the subtraction).
PutCallParityUpToRounding ==
    BothPrices =>
        /\ is_finite(ParityDifference)
        /\ bargs.F = bargs.K => ParityDifference = Zero
        /\ AbsInt(ParityDifference.v - FSub(bargs.F, bargs.K).v)
              <= Ulp(FMax(prices["Call"], prices["Put"]))

\* C6: both prices are known, forward # strike, and the difference of the
\* prices is not F - K
ParityOffByRounding ==
    /\ BothPrices
    /\ bargs.F # bargs.K
    /\ ParityDifference # FSub(bargs.F, bargs.K)

\* C9: black never waits for more than one mirrored call, the mirrored call
\* is never in the money again, and every call of black under way has a next
\* step (so black terminates with recursion depth at most 1).
MirrorsAtMostOnce ==
    /\ Len(stack) <= 1
    /\ (bpc = "body" /\ Len(stack) = 1) => ~InTheMoney(bargs.F, bargs.K, cur)
    /\ bpc # "rest" => (CanMirror \/ CanOtm \/ bpc = "return")

\* C9: a mirrored call of black is under way
MirroredCallUnderWay ==
    /\ bpc = "body"
    /\ Len(stack) = 1
    /\ cur # top

\* C10: when sigma * sqrt(T) is 0, black returns exactly the intrinsic value.
ZeroDeviationGivesIntrinsic ==
    \A o \in OptionTypes :
        (prices[o] # None /\ TotalDeviation(bargs.sigma, bargs.T) = Zero) =>
            prices[o] = Intrinsic(bargs.F, bargs.K, o)

\* C10: an in-the-money option with zero total deviation was priced at its
\* positive intrinsic value
IntrinsicAtZeroDeviation ==
    \E o \in OptionTypes :
        /\ prices[o] # None
        /\ TotalDeviation(bargs.sigma, bargs.T) = Zero
        /\ InTheMoney(bargs.F, bargs.K, o)
        /\ is_finite(prices[o])
        /\ prices[o].v > 0
        /\ prices[o] = Intrinsic(bargs.F, bargs.K, o)

\* C11: a solve on a valid market price at the lower boundary (exactly the
\* intrinsic value, or a normalised out-of-the-money price not above the floor)
\* ends Converged with volatility 0 and zero iterations, and calc_rational_iv
\* returns Ok(0) for it.
LowerBoundaryGivesZeroVolatility ==
    (/\ sv.stage \notin {"none", "Unstarted", "Normalized"}
     /\ is_finite(sv.F) /\ is_finite(sv.K) /\ is_finite(sv.tm)
     /\ ~FLt(sv.price, Intrinsic(sv.F, sv.K, sv.option_type))
     /\ ~FGt(sv.price, sv.F)
     /\ \/ sv.price = Intrinsic(sv.F, sv.K, sv.option_type)
        \/ FLe(NormalisedOtmPrice(sv), Zero)) =>
        /\ sv.stage = "Converged"
        /\ sv.iters = 0
        /\ sv.est = Zero
        /\ RationalIvReturned => ivres = [tag |-> "Ok", v |-> Zero, msg |-> ""]

\* C11: calc_rational_iv returned Ok(0) for a positive price above the
\* intrinsic value whose normalised value is below the floor
PriceBelowFloorGaveZero ==
    /\ RationalIvReturned
    /\ is_finite(sv.price) /\ sv.price.v > 0
    /\ sv.price # Intrinsic(sv.F, sv.K, sv.option_type)
    /\ FLe(NormalisedOtmPrice(sv), Zero)
    /\ sv.stage = "Converged"
    /\ sv.iters = 0
    /\ ivres = [tag |-> "Ok", v |-> Zero, msg |-> ""]

FailureKinds == {"InvalidPrice", "ConvergenceFailure", "DomainFailure"}

\* the failure kind of a finished solve, "none" when it did not fail
FailureKindOf(s) ==
    IF s.stage \in {"InvalidPrice", "DomainFailure"} THEN s.stage
    ELSE IF /\ s.stage \in {"Converged", "Exhausted"}
            /\ (is_nan(s.est) \/ is_infinite(s.est) \/ FLt(s.est, Zero))
         THEN "ConvergenceFailure"
    ELSE "none"

\* what calc_rational_iv can return for a solve that failed with this kind
ErrorsOfKind(kind) ==
    {RationalIvResult(x) :
        x \in IF kind = "ConvergenceFailure"
               THEN {e \in EstOut : is_nan(e) \/ is_infinite(e) \/ FLt(e, Zero)}
               ELSE FailOut}

\* C13 as stated: the error calc_rational_iv returns for a failed solve is
\* not an error it returns for a solve that failed with another kind.
FailureKindsDistinct ==
    (RationalIvReturned /\ ivres.tag = "Err") =>
        \A kind \in FailureKinds \ {FailureKindOf(sv)} : ivres \notin ErrorsOfKind(kind)

\* C14: a step of a solve
StageStep ==
    sv' # sv =>
        \/ /\ sv.stage = "none"
           /\ sv'.stage = "Unstarted" /\ sv'.iters = 0
        \/ /\ sv.stage \in {"Converged", "Exhausted", "InvalidPrice", "DomainFailure"}
           /\ sv'.stage = "none"
        \/ /\ sv.stage = "Unstarted"
           /\ sv'.stage \in {"Normalized", "InvalidPrice", "DomainFailure"}
           /\ sv'.iters = 0
        \/ /\ sv.stage = "Normalized"
           /\ sv'.stage \in {"InitialGuess", "Converged"}
           /\ sv'.iters = 0
        \/ /\ sv.stage \in {"InitialGuess", "Refining"}
           /\ sv'.stage = "Refining"
           /\ sv'.iters = sv.iters + 1
           /\ sv'.iters <= sv.limit
        \/ /\ sv.stage \in {"InitialGuess", "Refining"}
           /\ sv'.stage = "Converged"
           /\ sv'.iters = sv.iters /\ sv'.est = sv.est
        \/ /\ sv.stage \in {"InitialGuess", "Refining"}
           /\ sv'.stage = "Exhausted"
           /\ sv.iters = sv.limit
           /\ sv'.iters = sv.iters /\ sv'.est = sv.est

\* C14: of a solve that ended Exhausted, calc_rational_iv returns Ok exactly
\* when the final value is finite and not negative
ExhaustedIsNoFailure ==
    (RationalIvReturned /\ sv.stage = "Exhausted") =>
        (ivres.tag = "Ok" <=> (is_finite(sv.est) /\ sv.est.v >= 0))

SolvedPriceWithinTolerance ==
    \A t \in Threads :
        (thr[t].pc = "checked" /\ thr[t].op = "calc_iv" /\ thr[t].res.tag = "Ok")
            => FLe(FAbs(FSub(thr[t].check, thr[t].p)), thr[t].tol)

\* the methods that need sigma
SigmaOps == GreekNames \cup {"calc_price", "calc_rational_price"}

\* a call has returned to its caller
Returned(t) == thr[t].pc \in {"done", "checked"}

\* C19: every operation returns Err when an optional it needs is None: sigma
\* for calc_price, calc_rational_price and each Greek, p for calc_iv and
\* calc_rational_iv, whose check of p comes before any iteration or any use
\* of the solver; calc_iv does not need sigma and succeeds with sigma = None.
MissingOptionalIsErr ==
    /\ \A t \in Threads :
          Returned(t) =>
              /\ (thr[t].op \in SigmaOps /\ thr[t].snap.sigma = None)
                     => (thr[t].res.tag = "Err" /\ thr[t].res.v = None)
              /\ (thr[t].op = "calc_iv" /\ thr[t].snap.p = None)
                     => /\ thr[t].res.tag = "Err"
                        /\ thr[t].res.v = None
                        /\ thr[t].iters = 0
                        /\ thr[t].sigma = None
                        /\ mem[thr[t].place].sigma = thr[t].snap.sigma
              /\ (thr[t].op = "calc_iv" /\ thr[t].snap.p # None /\ thr[t].res.tag = "Err")
                     => thr[t].res.msg = FailedToConverge
    /\ (origin = "inputs" /\ inp.p = None)
           => (ivres.tag = "Err" /\ ivres.v = None /\ sv = NoSolve)

\* calc_iv returned Ok after iterating on Inputs whose sigma is None
IvSolvedWithoutSigma ==
    \E t \in Threads :
        /\ Returned(t)
        /\ thr[t].op = "calc_iv"
        /\ thr[t].snap.sigma = None
        /\ thr[t].iters > 0
        /\ thr[t].res.tag = "Ok"

\* some call that needs sigma returned Err for Inputs without sigma
SigmaMissingGaveErr ==
    \E t \in Threads :
        /\ Returned(t)
        /\ thr[t].op = "calc_rational_price"
        /\ thr[t].snap.sigma = None
        /\ thr[t].res = Err(SigmaRequiredOfType)

\* the keys of the map calc_all_greeks returns
AllGreeksKeys ==
    {"delta", "gamma", "theta", "vega", "rho", "epsilon", "lambda", "vanna",
     "charm", "veta", "vomma", "speed", "zomma", "color", "ultima",
     "dual_delta", "dual_gamma"}

\* C20: calc_all_greeks is all-or-nothing: if any of the Greeks' methods
\* returns Err, it returns that Err and no map; if all succeed, the map has
\* exactly 17 keys, each with the value of the Greek's own method.
AllGreeksAllOrNothing ==
    gk.pc = "done" =>
        LET w == mem[gk.self]
            failing == {name \in GreekNames : calc_greek(name, w).tag = "Err"}
        IN  IF failing # {}
            THEN /\ gk.res.tag = "Err"
                 /\ gk.res.v = None
                 /\ \E name \in failing : gk.res = calc_greek(name, w)
            ELSE /\ gk.res.tag = "Ok"
                 /\ DOMAIN gk.res.v = AllGreeksKeys
                 /\ Cardinality(DOMAIN gk.res.v) = 17
                 /\ \A key \in AllGreeksKeys : gk.res.v[key] = calc_greek(key, w).v

\* calc_all_greeks returned the full map
AllGreeksReturnedMap ==
    /\ gk.pc = "done"
    /\ gk.res.tag = "Ok"
    /\ Cardinality(DOMAIN gk.res.v) = 17

(* ----------------------- concurrent calls ----------------------------- *)

\* C15: calls that run at the same time on the same or on different Inputs
\* do not interfere: calc_iv iterates on a private clone, no call modifies
\* the Inputs it is called on, and each call returns what it returns when
\* it runs alone.
ConcurrentCallsDoNotInterfere ==
    /\ \A o \in Objects : mem[o] = ConcMem[o]
    /\ \A t \in Threads :
          thr[t].pc # "idle" =>
              /\ mem[thr[t].self] = thr[t].snap
              /\ (thr[t].op = "calc_iv" /\ thr[t].pc \in {"loop", "price"})
                     => /\ thr[t].place \notin Objects
                        /\ \A u \in Threads \ {t} : thr[u].place # thr[t].place
              /\ (thr[t].op = "calc_iv" /\ thr[t].pc = "done")
                     => thr[t].res = IvAlone(thr[t].snap, thr[t].tol)
              /\ (thr[t].op = "calc_price" /\ thr[t].pc = "done")
                     => thr[t].res =
                            (IF thr[t].snap.sigma = None THEN Err(SigmaRequired)
                             ELSE calc_price(thr[t].snap, kern[thr[t].snap]))

\* two calc_iv on the same Inputs ran their loops at the same time and both
\* returned Ok
OverlappingSolvesReturned ==
    /\ \A t \in Threads :
          /\ thr[t].pc = "done"
          /\ thr[t].op = "calc_iv"
          /\ thr[t].overlapped
          /\ thr[t].iters > 0
          /\ thr[t].res.tag = "Ok"
    /\ thr[1].self = thr[2].self
    /\ thr[1].tol # thr[2].tol

(* --------------------------- determinism ------------------------------ *)

BlackStrictlyIncreasing ==
    mono.pc = "both" => FLt(mono.lo, mono.hi)

\* C17, amended: for fixed forward, strike, maturity and option type, black
\* is non-decreasing in sigma: sigma1 < sigma2 gives
\* black(.., sigma1, ..) <= black(.., sigma2, ..).
BlackNonDecreasing ==
    mono.pc = "both" => FLe(mono.lo, mono.hi)

\* an in-the-money price rose with sigma
InTheMoneyPriceRose ==
    /\ mono.pc = "both"
    /\ InTheMoney(mono.F, mono.K, mono.option_type)
    /\ FLt(mono.kernel1, mono.kernel2)
    /\ FLt(mono.lo, mono.hi)

(* ------------------------ the sign of a price ------------------------- *)

\* C23: calc_price never returns Ok with a negative or NaN price: for every
\* Inputs with sigma present the result is clamped from below at 0, for calls
\* and puts alike, also when the combination of N(d1) and N(d2) is negative
\* or NaN.
PriceNeverNegativeOrNaN ==
    \A t \in Threads :
        /\ (Returned(t) /\ thr[t].op = "calc_price" /\ thr[t].res.tag = "Ok")
               => (~is_nan(thr[t].res.v) /\ FGe(thr[t].res.v, Zero))
        /\ (thr[t].pc = "checked")
               => (~is_nan(thr[t].check) /\ FGe(thr[t].check, Zero))

\* calc_price of a put returned Ok(0.0) where the combination of N(d1) and
\* N(d2) was NaN
NaNCombinationPricedZero ==
    \E t \in Threads :
        /\ Returned(t)
        /\ thr[t].op = "calc_price"
        /\ thr[t].snap.option_type = "Put"
        /\ thr[t].snap \in DOMAIN kern
        /\ is_nan(kern[thr[t].snap].raw)
        /\ thr[t].res = Ok(Zero)

(* --------------------- what calc_iv returns as Ok --------------------- *)

\* C22: calc_iv never returns Ok with a sigma that is NaN or infinite: for
\* every input and every tolerance, those that keep the loop body from
\* running and inputs with t = 0 included, a NaN or infinite estimate is
\* reported as Err("Failed to converge").
IvNeverOkNonFinite ==
    \A t \in Threads :
        (Returned(t) /\ thr[t].op = "calc_iv" /\ thr[t].res.tag = "Ok")
            => is_finite(thr[t].res.v)

(* ------------------------ calc_iv terminates -------------------------- *)

\* C21: calc_iv terminates for every input and every tolerance: the loop
\* always reaches a price difference within tolerance (Ok) or a NaN or
\* infinite sigma (Err) after finitely many iterations, also for a tolerance
\* <= 0 and for a price no volatility reproduces. (A call the model does not
\* follow further counts as one that terminates.)
IvTerminates ==
    (thr[Caller].op = "calc_iv" /\ thr[Caller].pc \in {"loop", "price"})
        ~> (thr[Caller].pc = "done" \/ BeyondModel(Caller))

====
